---- MODULE Spec2Model ----
(***************************************************************************)
(* AURAH, modules/butcher.py: the Butcher class.                           *)
(*                                                                         *)
(*   get_coordinates           (the Decoder)                               *)
(*   remove_overlapping_items  (the Suppressor)                            *)
(*   extract_image_segments    (the Extractor)                             *)
(*                                                                         *)
(* A DataPack is a Python dict: a function from category keys to           *)
(* sequences.  Scores and thresholds are real numbers in the program; here *)
(* they are integers counting hundredths (90 is 0.90), and every           *)
(* comparison of a ratio with a threshold is cross-multiplied, so it is    *)
(* exact.  The program compares in binary floating point; the values used  *)
(* below are chosen so that no comparison is decided by rounding.          *)
(*                                                                         *)
(* cv2.dnn.NMSBoxes, cv2.cvtColor and the slicing of a numpy array are     *)
(* library routines the methods call; they are modelled by what the        *)
(* libraries do, at the place of the call.                                 *)
(***************************************************************************)
EXTENDS Integers, Sequences, FiniteSets, TLC

VARIABLES
    output_data,      \* get_coordinates: the rows of the forward pass
    keys,             \* get_coordinates: the categories to retain
    fridge,           \* get_coordinates: what the call returned
    data_pack,        \* the DataPack handed to the Suppressor / Extractor
    nms_threshold,    \* remove_overlapping_items: argument of the last call
    score_threshold,  \* remove_overlapping_items: argument of the last call
    before,           \* history: each category's length when the last call began
    image,            \* extract_image_segments: <<height, width>> of the image
    new_data_pack,    \* extract_image_segments: what the call returned
    raised,           \* the exception the last call ended with, or "none"
    pc                \* "caller" until a method has been called, then its name

vars == <<output_data, keys, fridge, data_pack, nms_threshold, score_threshold,
          before, image, new_data_pack, raised, pc>>

----------------------------------------------------------------------------
(* Bounds of the model. *)

\* the most candidates a DataPack given to the Suppressor holds, over all
\* its categories
MaxCands == 4

\* the most candidates a DataPack given to the Extractor holds
MaxSegments == 2

\* the most rows a forward pass gives the Decoder, over all its layers
MaxRows == 2

\* the most output layers of a forward pass
MaxLayers == 2

----------------------------------------------------------------------------
(* resources/ids.py *)

IDs == [ARMS |-> 0, BODY |-> 1, CHEST |-> 2, EYES |-> 3, FEET |-> 4,
        HANDS |-> 5, HEAD |-> 6, LEGS |-> 7, MOUTH |-> 8, NOSE |-> 9,
        PERSON |-> 14]

\* the categories the DataPacks of the model use
Categories == {IDs.HEAD, IDs.PERSON}

----------------------------------------------------------------------------
(* Helpers *)

Max(a, b) == IF a >= b THEN a ELSE b
Min(a, b) == IF a <= b THEN a ELSE b

Range(s) == {s[i] : i \in DOMAIN s}

EmptyPack == [c \in {} |-> <<>>]

RECURSIVE SumLen(_, _)
SumLen(dp, cs) ==
    IF cs = {} THEN 0
    ELSE LET c == CHOOSE x \in cs : TRUE
         IN Len(dp[c]) + SumLen(dp, cs \ {c})

\* the number of candidates of a DataPack
PackSize(dp) == SumLen(dp, DOMAIN dp)

\* all_data[x] for x in indexes
Pick(all_data, indexes) == [k \in 1..Len(indexes) |-> all_data[indexes[k]]]

----------------------------------------------------------------------------
(* cv2.dnn.NMSBoxes(bboxes, scores, score_threshold, nms_threshold), with   *)
(* its defaults eta = 1 and top_k = 0.  Each element of bboxes is read as   *)
(* a cv::Rect, (x, y, width, height): the layout resources/custom_typing.py *)
(* gives ZoneInt.                                                           *)

RectArea(r) == r[3] * r[4]

RectEmpty(r) == r[3] <= 0 \/ r[4] <= 0

\* cv::Rect operator &
RectIntersect(a, b) ==
    IF RectEmpty(a) \/ RectEmpty(b) THEN <<0, 0, 0, 0>>
    ELSE LET x1 == Max(a[1], b[1])
             y1 == Max(a[2], b[2])
             w  == Min(a[1] + a[3], b[1] + b[3]) - x1
             h  == Min(a[2] + a[4], b[2] + b[4]) - y1
         IN IF w <= 0 \/ h <= 0 THEN <<0, 0, 0, 0>> ELSE <<x1, y1, w, h>>

\* OverlapExceeds with the comparison turned round
OverlapBelow(a, b, thr) ==
    LET Aa  == RectArea(a)
        Ab  == RectArea(b)
        Aab == RectArea(RectIntersect(a, b))
    IN IF Aa + Ab <= 0 THEN 100 < thr
       ELSE Aab * 100 < thr * (Aa + Ab - Aab)

\* rectOverlap(a, b) > thr, where rectOverlap = 1 - jaccardDistance and
\* jaccardDistance is 0 when both areas are 0, else 1 - Aab / (Aa + Ab - Aab)
OverlapExceeds(a, b, thr) ==
    LET Aa  == RectArea(a)
        Ab  == RectArea(b)
        Aab == RectArea(RectIntersect(a, b))
    IN IF Aa + Ab <= 0 THEN 100 > thr
       ELSE Aab * 100 > thr * (Aa + Ab - Aab)

\* InsertDescending as a sort that is not stable would do it: i goes in
\* front of the indices whose score equals its own
RECURSIVE InsertUnstable(_, _, _)
InsertUnstable(sorted, i, scores) ==
    IF sorted = <<>> THEN <<i>>
    ELSE IF scores[Head(sorted)] > scores[i]
         THEN <<Head(sorted)>> \o InsertUnstable(Tail(sorted), i, scores)
         ELSE <<i>> \o sorted

\* std::stable_sort with SortScorePairDescend: i goes behind every index
\* whose score is at least its own
RECURSIVE InsertDescending(_, _, _)
InsertDescending(sorted, i, scores) ==
    IF sorted = <<>> THEN <<i>>
    ELSE IF scores[Head(sorted)] >= scores[i]
         THEN <<Head(sorted)>> \o InsertDescending(Tail(sorted), i, scores)
         ELSE <<i>> \o sorted

\* GetMaxScoreIndex: the indices whose score is above the threshold, by
\* score descending, equal scores in index order
RECURSIVE GetMaxScoreIndex(_, _, _)
GetMaxScoreIndex(scores, threshold, n) ==
    IF n = 0 THEN <<>>
    ELSE LET rest == GetMaxScoreIndex(scores, threshold, n - 1)
         IN IF scores[n] > threshold
            THEN InsertDescending(rest, n, scores)
            ELSE rest

\* NMSFast_: an index is kept when its box overlaps no kept box by more
\* than the threshold
RECURSIVE NMSFast(_, _, _, _)
NMSFast(bboxes, order, nms_thr, indices) ==
    IF order = <<>> THEN indices
    ELSE LET idx  == Head(order)
             keep == \A k \in 1..Len(indices) :
                        ~OverlapExceeds(bboxes[idx], bboxes[indices[k]], nms_thr)
         IN NMSFast(bboxes, Tail(order), nms_thr,
                    IF keep THEN Append(indices, idx) ELSE indices)

\* CV_Assert_N(bboxes.size() == scores.size(), score_threshold >= 0,
\*             nms_threshold >= 0, eta > 0)
NMSBoxesAsserts(score_thr, nms_thr) == score_thr >= 0 /\ nms_thr >= 0

NMSBoxes(bboxes, scores, score_thr, nms_thr) ==
    NMSFast(bboxes, GetMaxScoreIndex(scores, score_thr, Len(scores)), nms_thr, <<>>)

----------------------------------------------------------------------------
(* Butcher.remove_overlapping_items *)

\* the body of the loop: the new list of one category
SuppressRow(all_data, nms_thr, score_thr) ==
    LET coordinates == [i \in 1..Len(all_data) |-> all_data[i][1]]
        scores      == [i \in 1..Len(all_data) |-> all_data[i][2]]
    IN Pick(all_data, NMSBoxes(coordinates, scores, score_thr, nms_thr))

\* SuppressPack as a loop that rebuilds the dict from the lists that are
\* not empty would do it
SuppressPackNonEmpty(dp, nms_thr, score_thr) ==
    [row \in {r \in DOMAIN dp : SuppressRow(dp[r], nms_thr, score_thr) # <<>>}
        |-> SuppressRow(dp[row], nms_thr, score_thr)]

\* for row in data_pack: data_pack[row] = ...
SuppressPack(dp, nms_thr, score_thr) ==
    [row \in DOMAIN dp |-> SuppressRow(dp[row], nms_thr, score_thr)]

\* The call.  NMSBoxes raises cv2.error on a negative threshold, in the
\* first pass of the loop, before any list is assigned; a DataPack without
\* categories never reaches NMSBoxes.
remove_overlapping_items(dp, nms_thr, score_thr) ==
    IF DOMAIN dp # {} /\ ~NMSBoxesAsserts(score_thr, nms_thr)
    THEN [raised |-> "cv2.error", value |-> dp]
    ELSE [raised |-> "none", value |-> SuppressPack(dp, nms_thr, score_thr)]

----------------------------------------------------------------------------
(* The caller of the Suppressor *)

\* The (ZoneInt, confidence) candidates the caller's DataPacks are made of.
\* Read as (x, y, width, height) the four zones overlap pairwise by
\*   1/3 (first, second), 3/5 (second, third), 3/5 (second, fourth)
\* and 1/5 otherwise; read as (x_min, x_max, y_min, y_max) they are four
\* proper boxes too, with other overlaps.
Candidates == { << <<0, 1, 3, 10>>, 90 >>, << <<0, 1, 1, 10>>, 90 >>,
                << <<0, 1, 1, 6>>, 50 >>,  << <<0, 5, 1, 6>>, 50 >> }

\* thresholds the caller passes: the defaults 0.3 and 0.5 among them
NmsThresholds == {-10, 30, 50, 150}
ScoreThresholds == {-10, 30, 50, 95}

\* data_pack[key] = []
NewCategory(key) ==
    /\ pc = "caller"
    /\ key \notin DOMAIN data_pack
    /\ data_pack' = [c \in DOMAIN data_pack \cup {key} |->
                        IF c = key THEN <<>> ELSE data_pack[c]]
    /\ UNCHANGED <<output_data, keys, fridge, nms_threshold, score_threshold,
                   before, image, new_data_pack, raised, pc>>

\* data_pack[key].append((zone, score))
AppendCandidate(key, cand, most) ==
    /\ pc = "caller"
    /\ key \in DOMAIN data_pack
    /\ PackSize(data_pack) < most
    /\ data_pack' = [data_pack EXCEPT ![key] = Append(@, cand)]
    /\ UNCHANGED <<output_data, keys, fridge, nms_threshold, score_threshold,
                   before, image, new_data_pack, raised, pc>>

\* data_pack = butcher.remove_overlapping_items(data_pack, nms_thr, score_thr)
RemoveOverlappingItems(nms_thr, score_thr) ==
    /\ pc \in {"caller", "remove_overlapping_items"}
    /\ LET r == remove_overlapping_items(data_pack, nms_thr, score_thr)
       IN /\ data_pack' = r.value
          /\ raised' = r.raised
    /\ nms_threshold' = nms_thr
    /\ score_threshold' = score_thr
    /\ before' = [c \in DOMAIN data_pack |-> Len(data_pack[c])]
    /\ pc' = "remove_overlapping_items"
    /\ UNCHANGED <<output_data, keys, fridge, image, new_data_pack>>

InitSuppressor ==
    /\ output_data = <<>>
    /\ keys = {}
    /\ fridge = EmptyPack
    /\ data_pack = EmptyPack
    /\ nms_threshold = 30
    /\ score_threshold = 50
    /\ before = EmptyPack
    /\ image = <<0, 0>>
    /\ new_data_pack = EmptyPack
    /\ raised = "none"
    /\ pc = "caller"

NextSuppressor ==
    \/ \E key \in Categories : NewCategory(key)
    \/ \E key \in Categories, cand \in Candidates :
          AppendCandidate(key, cand, MaxCands)
    \/ \E nms_thr \in NmsThresholds, score_thr \in ScoreThresholds :
          RemoveOverlappingItems(nms_thr, score_thr)

SpecSuppressor == InitSuppressor /\ [][NextSuppressor]_vars

----------------------------------------------------------------------------
(* The Suppressor as the specification words it: greedy non-maximum         *)
(* suppression over boxes read as (x_min, x_max, y_min, y_max).             *)

RefArea(b) == Max(b[2] - b[1], 0) * Max(b[4] - b[3], 0)

RefIntersection(a, b) ==
    Max(Min(a[2], b[2]) - Max(a[1], b[1]), 0)
        * Max(Min(a[4], b[4]) - Max(a[3], b[3]), 0)

\* intersection / (area(A) + area(B) - intersection) > thr; a zero union
\* gives IoU 0
RefIoUExceeds(a, b, thr) ==
    LET inter == RefIntersection(a, b)
        union == RefArea(a) + RefArea(b) - inter
    IN union > 0 /\ inter * 100 > thr * union

RECURSIVE RefInsert(_, _)
RefInsert(sorted, cand) ==
    IF sorted = <<>> THEN <<cand>>
    ELSE IF Head(sorted)[2] >= cand[2]
         THEN <<Head(sorted)>> \o RefInsert(Tail(sorted), cand)
         ELSE <<cand>> \o sorted

\* steps 1 and 2: drop confidence < scoreThreshold, sort descending, stable
RECURSIVE RefEligible(_, _, _)
RefEligible(all_data, score_thr, n) ==
    IF n = 0 THEN <<>>
    ELSE LET rest == RefEligible(all_data, score_thr, n - 1)
         IN IF all_data[n][2] < score_thr THEN rest
            ELSE RefInsert(rest, all_data[n])

\* step 3: take the first, drop what overlaps it, repeat
RECURSIVE RefGreedy(_, _)
RefGreedy(remaining, nms_thr) ==
    IF remaining = <<>> THEN <<>>
    ELSE LET top  == Head(remaining)
             rest == SelectSeq(Tail(remaining),
                        LAMBDA c : ~RefIoUExceeds(top[1], c[1], nms_thr))
         IN <<top>> \o RefGreedy(rest, nms_thr)

RefSuppress(all_data, nms_thr, score_thr) ==
    RefGreedy(RefEligible(all_data, score_thr, Len(all_data)), nms_thr)

InUnitRange(thr) == 0 <= thr /\ thr <= 100

\* no candidate's confidence is the threshold itself
OffThreshold(dp, score_thr) ==
    \A c \in DOMAIN dp : \A i \in 1..Len(dp[c]) : dp[c][i][2] # score_thr

\* C4, as claimed: after every call with thresholds in [0,1] each category
\* holds what the reference greedy suppression, over boxes read as
\* (x_min, x_max, y_min, y_max), makes of its list.  (Stated for the
\* DataPacks none of whose confidences equals scoreThreshold.)
C4_EqualsReferenceNMS ==
    [][ (pc' = "remove_overlapping_items"
            /\ InUnitRange(nms_threshold') /\ InUnitRange(score_threshold')
            /\ OffThreshold(data_pack, score_threshold'))
        => /\ raised' = "none"
           /\ DOMAIN data_pack' = DOMAIN data_pack
           /\ \A c \in DOMAIN data_pack :
                 data_pack'[c] =
                    RefSuppress(data_pack[c], nms_threshold', score_threshold')
      ]_vars

\* C5: NMS idempotence.  In every state a returning call of the Suppressor
\* has produced, calling it again on that DataPack with the same thresholds
\* returns, and returns the same DataPack: same categories, same
\* candidates, same order.
C5_Idempotent ==
    (pc = "remove_overlapping_items" /\ raised = "none")
    => remove_overlapping_items(data_pack, nms_threshold, score_threshold)
          = [raised |-> "none", value |-> data_pack]

\* a call removed candidates of a category and left at least two, which a
\* second run has to keep as they are
C5_Witness ==
    /\ pc = "remove_overlapping_items"
    /\ raised = "none"
    /\ \E c \in DOMAIN data_pack :
          /\ Len(data_pack[c]) >= 2
          /\ before[c] > Len(data_pack[c])
          /\ data_pack[c][1][2] = data_pack[c][2][2]

\* the thresholds a call returns with
ReturningNms == {t \in NmsThresholds : t >= 0}
ReturningScore == {t \in ScoreThresholds : t >= 0}

Survivors(all_data, nms_thr, score_thr) ==
    Len(SuppressRow(all_data, nms_thr, score_thr))

\* the number of survivors at each pair of thresholds
SurvivorTable(all_data) ==
    [nt \in ReturningNms, st \in ReturningScore |-> Survivors(all_data, nt, st)]

AboveThreshold(all_data, score_thr) ==
    Cardinality({i \in 1..Len(all_data) : all_data[i][2] > score_thr})

ScoreMonotone(table) ==
    \A nt \in ReturningNms : \A s1, s2 \in ReturningScore :
        s1 <= s2 => table[nt, s2] <= table[nt, s1]

\* C6, as claimed: for every category of every DataPack, raising
\* scoreThreshold never increases the number of survivors and raising
\* overlapThreshold never decreases it (calls that return).
C6_MonotoneBothWays ==
    \A c \in DOMAIN data_pack :
        \A table \in {SurvivorTable(data_pack[c])} :
           /\ ScoreMonotone(table)
           /\ \A st \in ReturningScore : \A n1, n2 \in ReturningNms :
                 n1 <= n2 => table[n1, st] <= table[n2, st]

\* C6, amended: raising scoreThreshold never increases the number of
\* survivors; raising overlapThreshold never decreases it for a category
\* with at most three candidates above scoreThreshold.
C6_MonotoneAmended ==
    \A c \in DOMAIN data_pack :
        \A table \in {SurvivorTable(data_pack[c])} :
           /\ ScoreMonotone(table)
           /\ \A st \in ReturningScore : \A n1, n2 \in ReturningNms :
                 (n1 <= n2 /\ AboveThreshold(data_pack[c], st) <= 3)
                 => table[n1, st] <= table[n2, st]

\* a call with overlapThreshold 0.5 kept two of a category's three
\* candidates, of which overlapThreshold 0.3 keeps only one
C6_Witness ==
    /\ pc = "remove_overlapping_items"
    /\ raised = "none"
    /\ nms_threshold = 50
    /\ score_threshold = 50
    /\ \E c \in DOMAIN data_pack :
          /\ before[c] = 3
          /\ Len(data_pack[c]) = 2
          /\ Survivors(data_pack[c], 30, 50) = 1

\* C7: a call of the Suppressor keeps the DataPack's categories; each list
\* holds only candidates it held before and is no longer; a category whose
\* candidates are all below scoreThreshold keeps its key, with an empty list.
C7_KeepsCategories ==
    [][ pc' = "remove_overlapping_items"
        => /\ DOMAIN data_pack' = DOMAIN data_pack
           /\ \A c \in DOMAIN data_pack :
                 /\ Range(data_pack'[c]) \subseteq Range(data_pack[c])
                 /\ Len(data_pack'[c]) <= Len(data_pack[c])
                 /\ (raised' = "none"
                       /\ \A i \in 1..Len(data_pack[c]) :
                             data_pack[c][i][2] < score_threshold')
                    => data_pack'[c] = <<>>
      ]_vars

\* scenario B: the call emptied a category and kept its key
C7_Witness ==
    /\ pc = "remove_overlapping_items"
    /\ raised = "none"
    /\ score_threshold = 95
    /\ \E c \in DOMAIN data_pack : before[c] = 2 /\ data_pack[c] = <<>>

\* C8, as claimed: a call with overlapThreshold or scoreThreshold outside
\* [0,1] ends with an error and leaves every list as it was.
C8_RejectsBadThreshold ==
    [][ (pc' = "remove_overlapping_items"
            /\ ~(InUnitRange(nms_threshold') /\ InUnitRange(score_threshold')))
        => (raised' # "none" /\ data_pack' = data_pack)
      ]_vars

----------------------------------------------------------------------------
(* Butcher.get_coordinates                                                  *)
(*                                                                          *)
(* A detection row is <<cx, cy, w, h, objectness, s_0, ..., s_k>>, each     *)
(* field in hundredths.  Python indexes from 0 and TLA+ from 1:             *)
(* detection[j] is row[j + 1].                                              *)

\* int(): truncation toward zero, of the quotient a / b with b > 0
Trunc(a, b) == IF a >= 0 THEN a \div b ELSE -((-a) \div b)

\* scores = detection[5:]
ScoresOf(detection) == SubSeq(detection, 6, Len(detection))

\* np.argmax: the first index (from 0) of the largest value
ArgMax(scores) ==
    (CHOOSE i \in 1..Len(scores) :
        /\ \A j \in 1..Len(scores) : scores[j] <= scores[i]
        /\ \A j \in 1..(i - 1) : scores[j] < scores[i]) - 1

\* lines 151-159: the tuple appended for one detection; x and w are kept
\* in two-hundredths of a pixel so that w / 2 is exact
DataOf(detection, score, img_width, img_height) ==
    LET w2 == 2 * detection[3] * img_width
        h2 == 2 * detection[4] * img_height
        x2 == 2 * detection[1] * img_width - detection[3] * img_width
        y2 == 2 * detection[2] * img_height - detection[4] * img_height
    IN <<Trunc(x2, 200), Trunc(x2 + w2, 200),
         Trunc(y2, 200), Trunc(y2 + h2, 200), score>>

\* the body of the inner loop
ScanDetection(fr, detection, ks, img_width, img_height) ==
    LET scores     == ScoresOf(detection)
        single_key == ArgMax(scores)
        score      == scores[single_key + 1]
        data       == DataOf(detection, score, img_width, img_height)
    IN IF single_key \in ks
       THEN [c \in DOMAIN fr \cup {single_key} |->
                IF c \in DOMAIN fr THEN (IF c = single_key
                                         THEN Append(fr[c], data) ELSE fr[c])
                ELSE <<data>>]
       ELSE fr

\* for detection in detections
RECURSIVE ScanDetections(_, _, _, _, _)
ScanDetections(fr, detections, ks, img_width, img_height) ==
    IF detections = <<>> THEN fr
    ELSE ScanDetections(
            ScanDetection(fr, Head(detections), ks, img_width, img_height),
            Tail(detections), ks, img_width, img_height)

\* for detections in output_data
RECURSIVE ScanOutput(_, _, _, _, _)
ScanOutput(fr, od, ks, img_width, img_height) ==
    IF od = <<>> THEN fr
    ELSE ScanOutput(ScanDetections(fr, Head(od), ks, img_width, img_height),
                    Tail(od), ks, img_width, img_height)

\* a, b = t: Python raises ValueError unless t has two elements
UnpackPair(t) ==
    IF Len(t) = 2 THEN [raised |-> "none", value |-> t]
    ELSE [raised |-> "ValueError", value |-> <<>>]

\* The call.  Line 136 is img_height, img_width = (): the unpacking of the
\* empty tuple raises before anything else runs.
get_coordinates(od, ks) ==
    LET dims == UnpackPair(<<>>)
    IN IF dims.raised # "none"
       THEN [raised |-> dims.raised, value |-> EmptyPack]
       ELSE [raised |-> "none",
             value  |-> ScanOutput(EmptyPack, od, ks,
                                   dims.value[2], dims.value[1])]

----------------------------------------------------------------------------
(* The caller of the Decoder *)

\* rows of a forward pass with three class scores (ARMS, BODY, CHEST): a
\* tie between BODY and CHEST; a box reaching left of and above the image;
\* a row whose objectness is larger than every class score
Detections == { <<50, 50, 40, 40, 90, 10, 80, 80>>,
                <<10, 10, 40, 40, 60, 70, 20, 5>>,
                <<50, 50, 20, 20, 95, 0, 0, 90>> }

KeyChoices == {IDs.ARMS, IDs.BODY, IDs.CHEST}

\* <<height, width>> of the images
ImageShapes == { <<100, 100>>, <<60, 80>> }

RowCount(od) == PackSize(od)

\* the forward pass has one more output layer
NewLayer ==
    /\ pc = "caller"
    /\ Len(output_data) < MaxLayers
    /\ output_data' = Append(output_data, <<>>)
    /\ UNCHANGED <<keys, fridge, data_pack, nms_threshold, score_threshold,
                   before, image, new_data_pack, raised, pc>>

\* the last output layer has one more row
NewDetection(detection) ==
    /\ pc = "caller"
    /\ output_data # <<>>
    /\ RowCount(output_data) < MaxRows
    /\ output_data' = [output_data EXCEPT ![Len(output_data)] =
                          Append(@, detection)]
    /\ UNCHANGED <<keys, fridge, data_pack, nms_threshold, score_threshold,
                   before, image, new_data_pack, raised, pc>>

\* keys.append(key)
RetainKey(key) ==
    /\ pc = "caller"
    /\ key \notin keys
    /\ keys' = keys \cup {key}
    /\ UNCHANGED <<output_data, fridge, data_pack, nms_threshold,
                   score_threshold, before, image, new_data_pack, raised, pc>>

\* fridge = butcher.get_coordinates(output_data, keys)
GetCoordinates ==
    /\ pc = "caller"
    /\ LET r == get_coordinates(output_data, keys)
       IN /\ fridge' = r.value
          /\ raised' = r.raised
    /\ pc' = "get_coordinates"
    /\ UNCHANGED <<output_data, keys, data_pack, nms_threshold,
                   score_threshold, before, image, new_data_pack>>

InitDecoder ==
    /\ output_data = <<>>
    /\ keys = {}
    /\ fridge = EmptyPack
    /\ data_pack = EmptyPack
    /\ nms_threshold = 30
    /\ score_threshold = 50
    /\ before = EmptyPack
    /\ image \in ImageShapes
    /\ new_data_pack = EmptyPack
    /\ raised = "none"
    /\ pc = "caller"

NextDecoder ==
    \/ NewLayer
    \/ \E detection \in Detections : NewDetection(detection)
    \/ \E key \in KeyChoices : RetainKey(key)
    \/ GetCoordinates

SpecDecoder == InitDecoder /\ [][NextDecoder]_vars

----------------------------------------------------------------------------
(* The Decoder as the specification words it: a row is four box fields and  *)
(* then the score vector; the image's width and height are given.           *)

RefScores(detection) == SubSeq(detection, 5, Len(detection))

RefBest(detection) == ArgMax(RefScores(detection))

\* the rows of all layers, in scan order
RECURSIVE Flatten(_)
Flatten(od) == IF od = <<>> THEN <<>> ELSE Head(od) \o Flatten(Tail(od))

RefBox(detection, img_width, img_height) ==
    LET d == DataOf(detection, 0, img_width, img_height)
    IN <<d[1], d[2], d[3], d[4]>>

RefCandidate(detection, img_width, img_height) ==
    <<RefBox(detection, img_width, img_height),
      RefScores(detection)[RefBest(detection) + 1]>>

\* the rows filed under category c
RefRows(od, c) == SelectSeq(Flatten(od), LAMBDA d : RefBest(d) = c)

RefDecode(od, ks, img_width, img_height) ==
    [c \in {k \in ks : RefRows(od, k) # <<>>} |->
        [i \in 1..Len(RefRows(od, c)) |->
            RefCandidate(RefRows(od, c)[i], img_width, img_height)]]

\* C1, as claimed: the Decoder returns, and the Detection set it returns
\* has a candidate for a row exactly when the row's best category (first
\* index of the largest score after the four box fields) is retained,
\* filed under that category: the categories and the number of candidates
\* of each are the reference's.
C1_RetainsBestCategory ==
    pc = "get_coordinates"
    => /\ raised = "none"
       /\ DOMAIN fridge = {k \in keys : RefRows(output_data, k) # <<>>}
       /\ \A c \in DOMAIN fridge : Len(fridge[c]) = Len(RefRows(output_data, c))

\* C2, as claimed: every candidate the Decoder returns is a pair
\* (Box, confidence), Box the four truncated integers with
\* x_min <= x_max and y_min <= y_max and confidence the best category's
\* score, so that element 0 is the box and element 1 the confidence.
C2_CandidateIsBoxAndScore ==
    pc = "get_coordinates"
    => /\ raised = "none"
       /\ fridge = RefDecode(output_data, keys, image[2], image[1])
       /\ \A c \in DOMAIN fridge : \A i \in 1..Len(fridge[c]) :
             /\ Len(fridge[c][i]) = 2
             /\ fridge[c][i][1][1] <= fridge[c][i][1][2]
             /\ fridge[c][i][1][3] <= fridge[c][i][1][4]

\* C3, as claimed: on an empty row sequence the Decoder returns an empty
\* Detection set and raises nothing.
C3_EmptyInputIsNoError ==
    (pc = "get_coordinates" /\ Flatten(output_data) = <<>>)
    => (raised = "none" /\ fridge = EmptyPack)

----------------------------------------------------------------------------
(* Butcher.extract_image_segments                                           *)
(*                                                                          *)
(* A segment is the part of the image it was cut from, rows [r0, r1) and    *)
(* columns [c0, c1), with its channel order.                                *)

\* numpy, one bound of a slice of an axis of length n: a negative bound
\* counts from the end, and the result is clipped to 0..n
SliceBound(i, n) == IF i < 0 THEN Max(i + n, 0) ELSE Min(i, n)

\* numpy, a[start:stop] on an axis of length n
Slice(start, stop, n) ==
    LET a == SliceBound(start, n)
        b == SliceBound(stop, n)
    IN <<a, Max(a, b)>>

\* image[zone[2]:zone[3], zone[0]:zone[1]]
Crop(img, zone) ==
    [rows  |-> Slice(zone[3], zone[4], img[1]),
     cols  |-> Slice(zone[1], zone[2], img[2]),
     order |-> "BGR"]

SegmentEmpty(seg) ==
    seg.rows[2] = seg.rows[1] \/ seg.cols[2] = seg.cols[1]

\* cv2.cvtColor(src, cv2.COLOR_BGR2RGB): CV_Assert(!_src.empty())
CvtColor(src) ==
    IF SegmentEmpty(src) THEN [raised |-> "cv2.error", value |-> src]
    ELSE [raised |-> "none", value |-> [src EXCEPT !.order = "RGB"]]

\* the loop over the candidates of one key
ExtractRow(img, all_data) ==
    [i \in 1..Len(all_data) |-> CvtColor(Crop(img, all_data[i][1]))]

\* The call: the first cvtColor that raises ends it.
extract_image_segments(img, dp) ==
    IF \E key \in DOMAIN dp : \E i \in 1..Len(dp[key]) :
          ExtractRow(img, dp[key])[i].raised # "none"
    THEN [raised |-> "cv2.error", value |-> EmptyPack]
    ELSE [raised |-> "none",
          value  |-> [key \in DOMAIN dp |->
                        [i \in 1..Len(dp[key]) |->
                            ExtractRow(img, dp[key])[i].value]]]

----------------------------------------------------------------------------
(* The caller of the Extractor *)

\* zones, as (x_min, x_max, y_min, y_max), on the 100 x 100 and the 60 x 80
\* image: inside; reaching left of and above it (scenario C); reaching
\* right of and below it; right of it; left of it; of no width
Boxes == { <<10, 50, 10, 50>>, <<-5, 20, -5, 20>>, <<50, 120, 50, 120>>,
           <<120, 130, 0, 20>>, <<-20, -10, 0, 10>>, <<20, 20, 0, 10>> }

\* segments = butcher.extract_image_segments(image, data_pack)
ExtractImageSegments ==
    /\ pc = "caller"
    /\ LET r == extract_image_segments(image, data_pack)
       IN /\ new_data_pack' = r.value
          /\ raised' = r.raised
    /\ pc' = "extract_image_segments"
    /\ UNCHANGED <<output_data, keys, fridge, data_pack, nms_threshold,
                   score_threshold, before, image>>

InitExtractor ==
    /\ output_data = <<>>
    /\ keys = {}
    /\ fridge = EmptyPack
    /\ data_pack = EmptyPack
    /\ nms_threshold = 30
    /\ score_threshold = 50
    /\ before = EmptyPack
    /\ image \in ImageShapes
    /\ new_data_pack = EmptyPack
    /\ raised = "none"
    /\ pc = "caller"

NextExtractor ==
    \/ \E key \in Categories : NewCategory(key)
    \/ \E key \in Categories, zone \in Boxes :
          AppendCandidate(key, <<zone, 90>>, MaxSegments)
    \/ ExtractImageSegments

SpecExtractor == InitExtractor /\ [][NextExtractor]_vars

----------------------------------------------------------------------------
(* The Extractor as the specification words it *)

\* one axis of the box, clamped to the image
RefClamp(lo, hi, n) ==
    LET a == Min(Max(lo, 0), n)
        b == Min(Max(hi, 0), n)
    IN <<a, Max(a, b)>>

\* C9, as claimed: the Extractor returns, and each segment is the box
\* intersected with the image rectangle; a box with no part in the image
\* gives a segment of zero width or zero height.
C9_CropIsClampedBox ==
    pc = "extract_image_segments"
    => /\ raised = "none"
       /\ DOMAIN new_data_pack = DOMAIN data_pack
       /\ \A c \in DOMAIN data_pack : \A i \in 1..Len(data_pack[c]) :
             LET zone == data_pack[c][i][1]
                 rows == RefClamp(zone[3], zone[4], image[1])
                 cols == RefClamp(zone[1], zone[2], image[2])
                 seg  == new_data_pack[c][i]
             IN /\ i <= Len(new_data_pack[c])
                /\ IF rows[1] = rows[2] \/ cols[1] = cols[2]
                   THEN SegmentEmpty(seg)
                   ELSE seg.rows = rows /\ seg.cols = cols

\* C10, as claimed: the Extractor returns a Segment set with the
\* categories of the Detection set and one segment per candidate, in
\* order, the i-th cut at the i-th candidate's zone; a candidate whose cut
\* is empty has an empty segment.
C10_OneSegmentPerCandidate ==
    pc = "extract_image_segments"
    => /\ raised = "none"
       /\ DOMAIN new_data_pack = DOMAIN data_pack
       /\ \A c \in DOMAIN data_pack :
             /\ Len(new_data_pack[c]) = Len(data_pack[c])
             /\ \A i \in 1..Len(data_pack[c]) :
                   LET cut == Crop(image, data_pack[c][i][1])
                   IN /\ new_data_pack[c][i].rows = cut.rows
                      /\ new_data_pack[c][i].cols = cut.cols

====
